---- MODULE Spec2Model ----
(***************************************************************************)
(* Seoul subway ingestion pipeline: the API client (subway_api_client.py), *)
(* the Celery tasks and the bounded JSON history log (tasks.py).           *)
(*                                                                         *)
(* Python values are encoded as follows.                                   *)
(*   - str: a TLA+ string, except the two fields the code scans character  *)
(*     by character (trainLineNm, barvlDt), which are tuples of one-       *)
(*     character strings;                                                  *)
(*   - None where a str is expected: PyNone (PyNoneChars for a tuple);     *)
(*   - a decoded JSON value whose type the code does not control:          *)
(*     [pytype |-> "dict", d |-> <record>], [pytype |-> "list",            *)
(*     items |-> <tuple>], [pytype |-> "NoneType"], [pytype |-> "str"];    *)
(*   - dict.get(k, default): Get(d, k, default), on a record whose DOMAIN  *)
(*     is the set of keys present;                                         *)
(*   - a call that may raise: [raised |-> FALSE, value |-> v] or           *)
(*     [raised |-> TRUE, exc |-> <exception class>].                       *)
(* User-facing message texts are given in English.                         *)
(***************************************************************************)
EXTENDS Integers, Sequences, FiniteSets, TLC

VARIABLES
    file,            \* logs/subway_data_log.json, the durable history
    env,             \* os.environ: SUBWAY_API_KEY, STATION_NAME, LINE_NUM
    pending,         \* task messages held by the broker
    triggered,       \* number of task messages published (calls made) so far
    now,             \* ticks of datetime.now() used for log entries
    pc,              \* per worker: position in the task body
    req,             \* per worker: self.request (the message being run)
    arrival_response, \* per worker: HTTP outcome of the arrivals call
    arrival_result,  \* per worker: local of fetch_subway_tracking_flow
    all_train_data,  \* per worker: local of fetch_subway_tracking_flow
    position_response, \* per worker: HTTP outcome of the positions call
    position_result, \* per worker: local of fetch_subway_tracking_flow
    subway_data_list, \* per worker: argument of process_subway_data
    log_entry,       \* per worker: local of process_subway_data
    logs,            \* per worker: local of process_subway_data
    result,          \* per worker: value returned by the task body
    exc,             \* per worker: exception that escaped the try block
    phase,           \* unit harness: "in" before the call, "out" after
    input,           \* unit harness: arguments of the call
    output           \* unit harness: value returned by the call

vars == <<file, env, pending, triggered, now, pc, req, arrival_response,
          arrival_result, all_train_data, position_response, position_result,
          subway_data_list, log_entry, logs, result, exc,
          phase, input, output>>

runnerVars == <<file, env, pending, triggered, now, pc, req, arrival_response,
                arrival_result, all_train_data, position_response,
                position_result, subway_data_list, log_entry, logs, result,
                exc>>

harnessVars == <<phase, input, output>>

fetchLocals == <<arrival_response, arrival_result, all_train_data,
                 position_response, position_result>>

storeLocals == <<subway_data_list, log_entry, logs>>

-----------------------------------------------------------------------------
(* Python helpers *)

PyNone == "<None>"
PyNoneChars == <<"<None>">>

Truthy(s) == s # PyNone /\ s # ""
TruthyChars(s) == s # PyNoneChars /\ s # <<>>

Get(d, k, default) == IF k \in DOMAIN d THEN d[k] ELSE default

Ret(v) == [raised |-> FALSE, value |-> v]
Raise(e) == [raised |-> TRUE, exc |-> e]

JDict(d) == [pytype |-> "dict", d |-> d]
JList(items) == [pytype |-> "list", items |-> items]
JNull == [pytype |-> "NoneType"]
JStr == [pytype |-> "str"]

Digits == {"0", "1", "2", "3", "4", "5", "6", "7", "8", "9"}

DigitVal(c) ==
    CASE c = "0" -> 0 [] c = "1" -> 1 [] c = "2" -> 2 [] c = "3" -> 3
      [] c = "4" -> 4 [] c = "5" -> 5 [] c = "6" -> 6 [] c = "7" -> 7
      [] c = "8" -> 8 [] c = "9" -> 9

RECURSIVE DigitsToInt(_)
DigitsToInt(s) ==
    IF s = <<>> THEN 0
    ELSE 10 * DigitsToInt(SubSeq(s, 1, Len(s) - 1)) + DigitVal(s[Len(s)])

\* int(s) for a str s: an optional sign, then one or more decimal digits.
PyInt(s) ==
    LET signed == s # <<>> /\ s[1] \in {"-", "+"}
        body == IF signed THEN Tail(s) ELSE s
    IN  IF body = <<>> \/ \E i \in 1..Len(body) : body[i] \notin Digits
        THEN Raise("ValueError")
        ELSE Ret(IF signed /\ s[1] = "-" THEN 0 - DigitsToInt(body)
                 ELSE DigitsToInt(body))

\* sub in s, for strings.
Contains(sub, s) ==
    \E i \in 0..(Len(s) - Len(sub)) : SubSeq(s, i + 1, i + Len(sub)) = sub

RECURSIVE Strip(_)
Strip(s) ==
    IF s = <<>> THEN s
    ELSE IF s[1] = " " THEN Strip(Tail(s))
    ELSE IF s[Len(s)] = " " THEN Strip(SubSeq(s, 1, Len(s) - 1))
    ELSE s

\* s.split('-')[0]
RECURSIVE SplitFirst(_)
SplitFirst(s) ==
    IF s = <<>> \/ s[1] = "-" THEN <<>>
    ELSE <<s[1]>> \o SplitFirst(Tail(s))

\* list.sort(key=...): stable; for fewer than 64 items CPython's sort is a
\* binary insertion sort that places an item after the items of equal key.
\* Mutant of InsertByArrival: an item goes before the items of equal key.
RECURSIVE InsertByArrival_BeforeEqual(_, _)
InsertByArrival_BeforeEqual(sorted, t) ==
    IF sorted = <<>> THEN <<t>>
    ELSE IF t.arrival_time <= sorted[1].arrival_time THEN <<t>> \o sorted
    ELSE <<sorted[1]>> \o InsertByArrival_BeforeEqual(Tail(sorted), t)

RECURSIVE InsertByArrival(_, _)
InsertByArrival(sorted, t) ==
    IF sorted = <<>> THEN <<t>>
    ELSE IF t.arrival_time < sorted[1].arrival_time THEN <<t>> \o sorted
    ELSE <<sorted[1]>> \o InsertByArrival(Tail(sorted), t)

RECURSIVE SortByArrival(_)
SortByArrival(trains) ==
    IF trains = <<>> THEN <<>>
    ELSE InsertByArrival(SortByArrival(SubSeq(trains, 1, Len(trains) - 1)),
                         trains[Len(trains)])

-----------------------------------------------------------------------------
(* subway_api_client.py *)

STATUS_500 == 500
STATUS_200 == 200

\* Mutant of ParseFailed: a payload that cannot be parsed counts as empty.
ParseFailed_AsEmpty(e) == [success |-> TRUE, count |-> 0, data |-> <<>>]

\* The except clause of both parsers, lines 126-131 and 226-231.
ParseFailed(e) == [success |-> FALSE, error |-> <<e>>,
                   message |-> <<"response parsing failed">>]

\* for train in v: a list gives its items, a dict its keys (strings), a
\* non-empty str its characters; None is not iterable.
IterItems(v) ==
    CASE v.pytype = "list" -> Ret(v.items)
      [] v.pytype = "dict" -> Ret([i \in 1..Cardinality(DOMAIN v.d) |-> JStr])
      [] v.pytype = "str"  -> Ret(<<JStr>>)
      [] OTHER             -> Raise("TypeError")

\* The dict built for one train of realtimeArrivalList.
ParseArrivalTrain(train) ==
    LET nm == Get(train, "trainLineNm", <<>>)
        t  == IF "barvlDt" \in DOMAIN train THEN PyInt(train.barvlDt)
              ELSE Ret(0)
    IN  IF t.raised THEN t
        ELSE Ret([train_no        |-> Get(train, "trainNo", ""),
                  train_line_nm   |-> nm,
                  subway_id       |-> Get(train, "subwayId", ""),
                  subway_nm       |-> Get(train, "subwayNm", ""),
                  station_nm      |-> Get(train, "statnNm", ""),
                  arrival_time    |-> t.value,
                  arrival_msg     |-> Get(train, "arvlMsg2", ""),
                  arrival_code    |-> Get(train, "arvlCd", ""),
                  current_station |-> Get(train, "arvlMsg3", ""),
                  up_down         |-> Get(train, "updnLine", ""),
                  direction       |-> IF Contains(<<"-">>, nm)
                                      THEN Strip(SplitFirst(nm)) ELSE nm,
                  is_express      |-> Get(train, "directAt", "0") = "1",
                  is_last_train   |-> Get(train, "lstcarAt", "0") = "1",
                  status          |-> Get(train, "trainSttus", ""),
                  received_time   |-> Get(train, "recptnDt", "")])

\* Mutant of _parse_arrival_response: a record that cannot be normalized is
\* left out and the others are returned.
_parse_arrival_response_SkipBad(data) ==
    IF data.pytype # "dict" THEN ParseFailed("AttributeError")
    ELSE LET arrival_list == Get(data.d, "realtimeArrivalList", JList(<<>>))
         IN  IF IterItems(arrival_list).raised THEN ParseFailed("TypeError")
             ELSE LET good == SelectSeq(IterItems(arrival_list).value,
                                LAMBDA it : /\ it.pytype = "dict"
                                            /\ ~ParseArrivalTrain(it.d).raised)
                  IN  [success |-> TRUE,
                       count   |-> Len(good),
                       data    |-> [i \in 1..Len(good) |->
                                       ParseArrivalTrain(good[i].d).value]]

_parse_arrival_response(data) ==
    IF data.pytype # "dict" THEN ParseFailed("AttributeError")
    ELSE LET arrival_list == Get(data.d, "realtimeArrivalList", JList(<<>>))
         IN  IF IterItems(arrival_list).raised THEN ParseFailed("TypeError")
             ELSE LET items == IterItems(arrival_list).value
                      bad == {i \in 1..Len(items) :
                                 \/ items[i].pytype # "dict"
                                 \/ ParseArrivalTrain(items[i].d).raised}
                      first == CHOOSE i \in bad : \A j \in bad : i <= j
                  IN  IF bad # {}
                      THEN ParseFailed(IF items[first].pytype # "dict"
                                       THEN "AttributeError"
                                       ELSE "ValueError")
                      ELSE [success |-> TRUE,
                            count   |-> Len(items),
                            data    |-> [i \in 1..Len(items) |->
                                   ParseArrivalTrain(items[i].d).value]]

\* The dict built for one train of realtimePositionList.
ParsePositionTrain(train) ==
    [train_no        |-> Get(train, "trainNo", ""),
     train_status    |-> Get(train, "trainSttus", ""),
     current_station |-> Get(train, "statnNm", ""),
     next_station    |-> Get(train, "statnTnm", ""),
     direction       |-> Get(train, "trainLineNm", <<>>),
     up_down         |-> Get(train, "updnLine", ""),
     subway_id       |-> Get(train, "subwayId", ""),
     received_time   |-> Get(train, "recptnDt", "")]

_parse_position_response(data) ==
    IF data.pytype # "dict" THEN ParseFailed("AttributeError")
    ELSE LET position_list == Get(data.d, "realtimePositionList", JList(<<>>))
         IN  IF IterItems(position_list).raised THEN ParseFailed("TypeError")
             ELSE LET items == IterItems(position_list).value
                  IN  IF \E i \in 1..Len(items) : items[i].pytype # "dict"
                      THEN ParseFailed("AttributeError")
                      ELSE [success |-> TRUE,
                            count   |-> Len(items),
                            data    |-> [i \in 1..Len(items) |->
                                            ParsePositionTrain(items[i].d)]]

\* Mutant of HasStatus500: the check gives way to an errorMessage.
HasStatus500_UnlessErrorMessage(data) ==
    /\ data.pytype = "dict"
    /\ "status" \in DOMAIN data.d
    /\ data.d.status = STATUS_500
    /\ "errorMessage" \notin DOMAIN data.d

\* Lines 41 and 153: "status" in data and data["status"] == 500
HasStatus500(data) ==
    /\ data.pytype = "dict"
    /\ "status" \in DOMAIN data.d
    /\ data.d.status = STATUS_500

\* Mutant of ErrorMessageFails: either condition is enough.
ErrorMessageFails_Either(data) ==
    /\ data.pytype = "dict"
    /\ "errorMessage" \in DOMAIN data.d
    /\ \/ Get(data.d.errorMessage, "code", PyNone) # "INFO-000"
       \/ ~ ( /\ "status" \in DOMAIN data.d.errorMessage
              /\ data.d.errorMessage.status = STATUS_200 )

\* Lines 51-54 and 163-166: "errorMessage" in data, and
\* error_info.get("code") != "INFO-000" and error_info.get("status") != 200
ErrorMessageFails(data) ==
    /\ data.pytype = "dict"
    /\ "errorMessage" \in DOMAIN data.d
    /\ Get(data.d.errorMessage, "code", PyNone) # "INFO-000"
    /\ ~ ( /\ "status" \in DOMAIN data.d.errorMessage
           /\ data.d.errorMessage.status = STATUS_200 )

\* resp is what requests.get, raise_for_status and response.json() gave:
\* a RequestException, or the decoded value.
get_realtime_arrival(resp) ==
    IF resp.kind = "RequestException"
    THEN Ret([success |-> FALSE, error |-> <<"RequestException">>,
              message |-> <<"API request failed">>])
    ELSE LET data == resp.data
         IN  IF data.pytype = "NoneType" THEN Raise("TypeError")
             ELSE IF HasStatus500(data)
             THEN LET error_msg == Get(data.d, "message", "unknown error")
                      error_code == Get(data.d, "code", "")
                  IN  Ret([success |-> FALSE,
                           error   |-> <<error_code, ": ", error_msg>>,
                           message |-> <<"API error (", error_code, "): ",
                                         error_msg>>])
             ELSE IF ErrorMessageFails(data)
             THEN LET error_msg == Get(data.d.errorMessage, "message",
                                       "unknown error")
                  IN  Ret([success |-> FALSE,
                           error   |-> <<error_msg>>,
                           message |-> <<"API error: ", error_msg>>])
             ELSE Ret(_parse_arrival_response(data))

\* Mutant of get_realtime_position: a transport failure is raised, not
\* returned.
get_realtime_position_Raises(resp) ==
    IF resp.kind = "RequestException" THEN Raise("RequestException")
    ELSE Ret(_parse_position_response(resp.data))

get_realtime_position(resp) ==
    IF resp.kind = "RequestException"
    THEN Ret([success |-> FALSE, error |-> <<"RequestException">>,
              message |-> <<"API request failed">>])
    ELSE LET data == resp.data
         IN  IF data.pytype = "NoneType" THEN Raise("TypeError")
             ELSE IF HasStatus500(data)
             THEN LET error_msg == Get(data.d, "message", "unknown error")
                      error_code == Get(data.d, "code", "")
                  IN  Ret([success |-> FALSE,
                           error   |-> <<error_code, ": ", error_msg>>,
                           message |-> <<"API error (", error_code, "): ",
                                         error_msg>>])
             ELSE IF ErrorMessageFails(data)
             THEN LET error_msg == Get(data.d.errorMessage, "message",
                                       "unknown error")
                  IN  Ret([success |-> FALSE,
                           error   |-> <<error_msg>>,
                           message |-> <<"API error: ", error_msg>>])
             ELSE Ret(_parse_position_response(data))

FilterLine(trains, line_num) ==
    IF Truthy(line_num)
    THEN SelectSeq(trains, LAMBDA t : t.subway_id = line_num)
    ELSE trains

FilterDirection(trains, direction) ==
    IF TruthyChars(direction)
    THEN SelectSeq(trains, LAMBDA t : Contains(direction, t.train_line_nm))
    ELSE trains

\* Mutants of track_train_to_station: count is the number of records
\* fetched; a failed fetch is answered by an empty success.
track_train_to_station_StaleCount(resp, station_name, line_num, direction) ==
    LET arrival == get_realtime_arrival(resp)
    IN  IF arrival.raised THEN arrival
        ELSE IF ~arrival.value.success THEN arrival
        ELSE Ret([success      |-> TRUE,
                  count        |-> arrival.value.count,
                  station_name |-> station_name,
                  data         |-> SortByArrival(FilterDirection(
                                       FilterLine(arrival.value.data,
                                                  line_num), direction))])

track_train_to_station_SwallowsError(resp, station_name, line_num, direction) ==
    LET arrival == get_realtime_arrival(resp)
    IN  IF arrival.raised THEN arrival
        ELSE LET fetched == IF arrival.value.success THEN arrival.value.data
                            ELSE <<>>
                 sorted == SortByArrival(FilterDirection(
                               FilterLine(fetched, line_num), direction))
             IN  Ret([success      |-> TRUE,
                      count        |-> Len(sorted),
                      station_name |-> station_name,
                      data         |-> sorted])

track_train_to_station(resp, station_name, line_num, direction) ==
    LET arrival == get_realtime_arrival(resp)
    IN  IF arrival.raised THEN arrival
        ELSE IF ~arrival.value.success THEN arrival
        ELSE LET trains == FilterDirection(
                               FilterLine(arrival.value.data, line_num),
                               direction)
                 sorted == SortByArrival(trains)
             IN  Ret([success      |-> TRUE,
                      count        |-> Len(sorted),
                      station_name |-> station_name,
                      data         |-> sorted])

-----------------------------------------------------------------------------
(* tasks.py: configuration and program constants *)

Capacity == 100
RETRY_COUNTDOWN == 60
MAX_RETRIES == 3
MAX_SHOWN == 5

Workers == {"w1", "w2"}

\* How many task messages are published in a run of the model.
MaxTriggers == 1

\* How many calls of process_subway_data the store harness makes.
MaxCalls == 2

\* The longest realtimeArrivalList the query harness feeds.
MaxLen == 3

TRACKING == "fetch_subway_tracking_flow"
ARRIVAL == "fetch_subway_arrival_info"

DEFAULT_STATION == "Sindorim"

\* os.getenv('STATION_NAME', DEFAULT_STATION)
EnvStation(e) ==
    IF e.STATION_NAME = PyNone THEN DEFAULT_STATION ELSE e.STATION_NAME

KnownLines == {"1001", "1002", "1003", "1004", "1005", "1006", "1007",
               "1008", "1009", "1063", "1065", "1067", "1075", "1077"}

\* Mutant of _convert_line_num_to_name: every code has a name.
_convert_line_num_to_name_Any(line_num) == "Line"

_convert_line_num_to_name(line_num) ==
    CASE line_num = "1001" -> "Line 1"
      [] line_num = "1002" -> "Line 2"
      [] line_num = "1003" -> "Line 3"
      [] line_num = "1004" -> "Line 4"
      [] line_num = "1005" -> "Line 5"
      [] line_num = "1006" -> "Line 6"
      [] line_num = "1007" -> "Line 7"
      [] line_num = "1008" -> "Line 8"
      [] line_num = "1009" -> "Line 9"
      [] line_num = "1063" -> "Gyeongui-Jungang Line"
      [] line_num = "1065" -> "Airport Railroad"
      [] line_num = "1067" -> "Gyeongchun Line"
      [] line_num = "1075" -> "Suin-Bundang Line"
      [] line_num = "1077" -> "Shinbundang Line"
      [] OTHER -> ""

-----------------------------------------------------------------------------
(* tasks.py: process_subway_data, the history log *)

Missing == [kind |-> "missing", logs |-> <<>>]   \* no such file
Empty   == [kind |-> "empty",   logs |-> <<>>]   \* zero bytes
Corrupt == [kind |-> "corrupt", logs |-> <<>>]   \* bytes json.load rejects
NonList == [kind |-> "nonlist", logs |-> <<>>]   \* valid JSON, not an array
ListFile(l) == [kind |-> "list", logs |-> l]     \* a JSON array

\* Mutants of LastCapacity: logs[:100], and no cut at all.
LastCapacity_KeepOldest(l) ==
    IF Len(l) <= Capacity THEN l ELSE SubSeq(l, 1, Capacity)

LastCapacity_NoCut(l) == l

\* logs[-100:]
LastCapacity(l) ==
    IF Len(l) <= Capacity THEN l ELSE SubSeq(l, Len(l) - Capacity + 1, Len(l))

\* json.load(f) inside try/except: the except clause gives [].
ReadLogs(f) ==
    CASE f.kind = "list"    -> JList(f.logs)
      [] f.kind = "nonlist" -> [pytype |-> "dict"]
      [] OTHER              -> JList(<<>>)

\* Mutant of AppendEntry: the entry is appended twice.
AppendEntry_Twice(l, e) ==
    IF l.pytype # "list" THEN Raise("AttributeError")
    ELSE Ret(LastCapacity(Append(Append(l.items, e), e)))

\* logs.append(log_entry); logs = logs[-100:]
AppendEntry(l, e) ==
    IF l.pytype # "list" THEN Raise("AttributeError")
    ELSE Ret(LastCapacity(Append(l.items, e)))

NoEntry == [timestamp |-> 0 - 1, data |-> <<>>]

\* Lines 90-101: log_entry is built, then os.path.exists(log_file).
StoreBegin(w) ==
    /\ pc[w] = "process_subway_data"
    /\ now' = now + 1
    /\ log_entry' = [log_entry EXCEPT
                       ![w] = [timestamp |-> now, data |-> subway_data_list[w]]]
    /\ IF file.kind = "missing"
       THEN /\ logs' = [logs EXCEPT
                          ![w] = AppendEntry(JList(<<>>), log_entry'[w]).value]
            /\ pc' = [pc EXCEPT ![w] = "store_open"]
       ELSE /\ logs' = [logs EXCEPT ![w] = <<>>]
            /\ pc' = [pc EXCEPT ![w] = "store_read"]
    /\ UNCHANGED <<file, env, pending, triggered, req, fetchLocals,
                   subway_data_list, result, exc,
                   harnessVars>>

\* Lines 102-110: the file is read, the entry appended, the list cut.
StoreRead(w) ==
    /\ pc[w] = "store_read"
    /\ LET appended == AppendEntry(ReadLogs(file), log_entry[w])
       IN  IF appended.raised
           THEN /\ exc' = [exc EXCEPT ![w] = appended.exc]
                /\ pc' = [pc EXCEPT ![w] = "raised"]
                /\ logs' = logs
           ELSE /\ logs' = [logs EXCEPT ![w] = appended.value]
                /\ pc' = [pc EXCEPT ![w] = "store_open"]
                /\ exc' = exc
    /\ UNCHANGED <<file, env, pending, triggered, now, req, fetchLocals,
                   subway_data_list, log_entry, result,
                   harnessVars>>

\* Line 113: open(log_file, 'w') truncates the file, or fails with OSError
\* and leaves it as it was.
StoreOpen(w) ==
    /\ pc[w] = "store_open"
    /\ \/ /\ file' = Empty
          /\ pc' = [pc EXCEPT ![w] = "store_dump"]
          /\ exc' = exc
       \/ /\ file' = file
          /\ pc' = [pc EXCEPT ![w] = "raised"]
          /\ exc' = [exc EXCEPT ![w] = "OSError"]
    /\ UNCHANGED <<env, pending, triggered, now, req, fetchLocals,
                   subway_data_list, log_entry, logs, result,
                   harnessVars>>

\* What the file holds once all of logs has been written from offset 0: the
\* array itself if nothing else was written since the file was truncated,
\* otherwise the array, possibly followed by the tail of the longer text
\* another writer left (bytes json.load rejects).
Dumped(f, l) ==
    IF f.kind = "empty" THEN {ListFile(l)} ELSE {ListFile(l), Corrupt}

\* Line 114: json.dump(logs, f) and the close of the file; a write that
\* fails part-way (OSError) leaves the bytes written so far.
StoreDump(w) ==
    /\ pc[w] = "store_dump"
    /\ \/ /\ file' \in Dumped(file, logs[w])
          /\ pc' = [pc EXCEPT ![w] = "stored"]
          /\ exc' = exc
       \/ /\ file' = Corrupt
          /\ pc' = [pc EXCEPT ![w] = "raised"]
          /\ exc' = [exc EXCEPT ![w] = "OSError"]
    /\ UNCHANGED <<env, pending, triggered, now, req, fetchLocals,
                   subway_data_list, log_entry, logs, result,
                   harnessVars>>

-----------------------------------------------------------------------------
(* Upstream responses the fetch capability may give *)

Json(d) == [kind |-> "json", data |-> d]

RequestFailed == [kind |-> "RequestException"]

Train(no, line, secs, nm) ==
    JDict([trainNo |-> no, subwayId |-> line, barvlDt |-> secs,
           trainLineNm |-> nm, arvlMsg2 |-> "approaching",
           arvlMsg3 |-> "Guro", trainSttus |-> "1"])

ToSeongsu == <<"S", " ", "-", " ", "o">>
ToSeoul == <<"X">>

Arrivals(items) ==
    Json(JDict([errorMessage |-> [status |-> STATUS_200, code |-> "INFO-000",
                                  message |-> "OK"],
                realtimeArrivalList |-> JList(items)]))

ArrivalResponses ==
    { RequestFailed,
      Json(JNull),
      Json(JList(<<>>)),
      Json(JDict([status |-> STATUS_500, code |-> "ERROR-338",
                  message |-> "rate limited"])),
      Json(JDict([errorMessage |-> [status |-> STATUS_500,
                                    code |-> "ERROR-300",
                                    message |-> "bad request"]])),
      Arrivals(<<>>),
      Arrivals(<<Train("T1", "1002", <<"1", "2", "0">>, ToSeongsu),
                 Train("T2", "1002", <<"3", "0">>, ToSeoul)>>),
      Arrivals(<<Train("T3", "9999", <<"3", "0">>, ToSeoul)>>),
      Arrivals(<<Train("T1", "1002", <<"a">>, ToSeoul)>>),
      Arrivals(<<Train("T1", "1002", <<"6", "0">>, ToSeoul),
                 Train("T2", "1002", <<"5", "0">>, ToSeoul),
                 Train("T3", "1002", <<"4", "0">>, ToSeoul),
                 Train("T4", "1002", <<"3", "0">>, ToSeoul),
                 Train("T5", "1002", <<"2", "0">>, ToSeoul),
                 Train("T6", "1002", <<"1", "0">>, ToSeoul)>>) }

Position(no, at, next) ==
    JDict([trainNo |-> no, statnNm |-> at, statnTnm |-> next])

PositionResponses ==
    { RequestFailed,
      Json(JNull),
      Json(JDict([status |-> STATUS_500, code |-> "ERROR-338",
                  message |-> "rate limited"])),
      Json(JDict([realtimePositionList |-> JList(<<JStr>>)])),
      Json(JDict([realtimePositionList |-> JList(<<>>)])),
      Json(JDict([realtimePositionList |->
                    JList(<<Position("T1", "Guro", "Sindorim"),
                            Position("T9", "Hapjeong", "Hongdae"),
                            Position("T6", "Sadang", "Bangbae")>>)])) }

Envs == [SUBWAY_API_KEY : {PyNone, "key"},
         STATION_NAME   : {PyNone, ""},
         LINE_NUM       : {PyNone, "1002", "9999"}]

-----------------------------------------------------------------------------
(* tasks.py: the Celery tasks *)

Unset == [unset |-> TRUE]
NoReq == [id |-> 0, task |-> "", retries |-> 0, countdown |-> 0]
NoResp == [kind |-> "none"]

\* SeoulSubwayAPIClient(): raises ValueError without SUBWAY_API_KEY.
NewClient(e) ==
    IF ~Truthy(e.SUBWAY_API_KEY) THEN Raise("ValueError") ELSE Ret("client")

\* Mutant of FirstShown: every train is shown.
FirstShown_All(trains) == trains

\* trains[:5]
FirstShown(trains) ==
    SubSeq(trains, 1, IF Len(trains) < MAX_SHOWN THEN Len(trains)
                      ELSE MAX_SHOWN)

\* The dict appended to all_train_data for one train.
Summary(train) ==
    [train_no        |-> train.train_no,
     direction       |-> train.direction,
     arrival_time    |-> train.arrival_time,
     arrival_msg     |-> train.arrival_msg,
     current_station |-> train.current_station,
     status          |-> train.status,
     is_express      |-> train.is_express,
     is_last_train   |-> train.is_last_train]

Summaries(trains) ==
    [i \in 1..Len(FirstShown(trains)) |-> Summary(trains[i])]

\* Mutant of Matched: every position is matched.
Matched_All(tracked, positions) == positions

\* The positions the flow prints as matched, in order.
Matched(tracked, positions) ==
    SelectSeq(positions,
              LAMBDA pos : \E i \in 1..Len(tracked) :
                               tracked[i].train_no = pos.train_no)

\* Lines 204-211: the (train_no, current_station, next_station) lines printed
\* for a positions result that succeeded with at least one record.
Reconciled(tracked, position) ==
    IF "success" \in DOMAIN position /\ position.success /\ position.count > 0
    THEN LET m == Matched(tracked, position.data)
         IN  [i \in 1..Len(m) |-> [train_no        |-> m[i].train_no,
                                   current_station |-> m[i].current_station,
                                   next_station    |-> m[i].next_station]]
    ELSE <<>>

\* Mutant of ArrivalFailed: an empty result is not treated as a failure.
ArrivalFailed_OnlyError(arrival) == ~arrival.success

\* Line 153: not arrival_result['success'] or arrival_result['count'] == 0
ArrivalFailed(arrival) == ~arrival.success \/ arrival.count = 0

FailedResult(w, arrival) ==
    [status    |-> "failed",
     stage     |-> "arrival_info",
     error     |-> Get(arrival, "message", <<"no arrival info found">>),
     timestamp |-> now,
     task_id   |-> req[w].id]

\* The beat schedule publishes fetch_subway_tracking_flow; the arrival task
\* is published by name.
Publish(task) ==
    /\ triggered < MaxTriggers
    /\ triggered' = triggered + 1
    /\ pending' = pending \union
                    {[id |-> triggered + 1, task |-> task, retries |-> 0,
                      countdown |-> 0]}
    /\ UNCHANGED <<file, env, now, pc, req, fetchLocals, storeLocals, result,
                   exc, harnessVars>>

\* A worker takes a message and enters the task body.
Receive(w) ==
    /\ pc[w] = "idle"
    /\ \E m \in pending :
          /\ pending' = pending \ {m}
          /\ req' = [req EXCEPT ![w] = m]
          /\ pc' = [pc EXCEPT ![w] = m.task]
    /\ UNCHANGED <<file, env, triggered, now, fetchLocals, storeLocals,
                   result, exc, harnessVars>>

\* fetch_subway_tracking_flow, lines 135-196: the client, the arrivals call,
\* the failed result or the summaries of the first trains.
TrackingFetchArrivals(w) ==
    /\ pc[w] = TRACKING
    /\ IF NewClient(env).raised
       THEN /\ exc' = [exc EXCEPT ![w] = NewClient(env).exc]
            /\ pc' = [pc EXCEPT ![w] = "raised"]
            /\ UNCHANGED <<arrival_response, arrival_result, all_train_data,
                           result>>
       ELSE \E resp \in ArrivalResponses :
              LET r == track_train_to_station(resp, EnvStation(env),
                                              env.LINE_NUM, PyNoneChars)
              IN  /\ arrival_response' = [arrival_response EXCEPT ![w] = resp]
                  /\ IF r.raised
                     THEN /\ exc' = [exc EXCEPT ![w] = r.exc]
                          /\ pc' = [pc EXCEPT ![w] = "raised"]
                          /\ UNCHANGED <<arrival_result, all_train_data,
                                         result>>
                     ELSE /\ arrival_result' =
                                 [arrival_result EXCEPT ![w] = r.value]
                          /\ exc' = exc
                          /\ IF ArrivalFailed(r.value)
                             THEN /\ result' = [result EXCEPT
                                        ![w] = FailedResult(w, r.value)]
                                  /\ pc' = [pc EXCEPT ![w] = "returned"]
                                  /\ UNCHANGED all_train_data
                             ELSE /\ all_train_data' = [all_train_data EXCEPT
                                        ![w] = Summaries(r.value.data)]
                                  /\ pc' = [pc EXCEPT ![w] = "positions"]
                                  /\ UNCHANGED result
    /\ UNCHANGED <<file, env, pending, triggered, now, req, position_response,
                   position_result, storeLocals, harnessVars>>

\* fetch_subway_tracking_flow, lines 198-226: the optional positions call,
\* then the call of process_subway_data([full_tracking_data]).
TrackingPositions(w) ==
    /\ pc[w] = "positions"
    /\ LET full_tracking_data == [station_name |-> EnvStation(env),
                                  line_num     |-> env.LINE_NUM,
                                  trains       |-> all_train_data[w]]
           proceed == /\ subway_data_list' = [subway_data_list EXCEPT
                                                ![w] = <<full_tracking_data>>]
                      /\ pc' = [pc EXCEPT ![w] = "process_subway_data"]
                      /\ exc' = exc
       IN  IF _convert_line_num_to_name(env.LINE_NUM) = ""
           THEN /\ proceed
                /\ UNCHANGED <<position_response, position_result>>
           ELSE \E resp \in PositionResponses :
                  LET p == get_realtime_position(resp)
                  IN  /\ position_response' =
                             [position_response EXCEPT ![w] = resp]
                      /\ IF p.raised
                         THEN /\ exc' = [exc EXCEPT ![w] = p.exc]
                              /\ pc' = [pc EXCEPT ![w] = "raised"]
                              /\ UNCHANGED <<position_result,
                                             subway_data_list>>
                         ELSE /\ position_result' =
                                     [position_result EXCEPT ![w] = p.value]
                              /\ proceed
    /\ UNCHANGED <<file, env, pending, triggered, now, req, arrival_response,
                   arrival_result, all_train_data, log_entry, logs, result,
                   harnessVars>>

\* fetch_subway_tracking_flow, lines 228-235.
TrackingReturn(w) ==
    /\ pc[w] = "stored"
    /\ req[w].task = TRACKING
    /\ result' = [result EXCEPT ![w] =
                    [status       |-> "success",
                     timestamp    |-> now,
                     station_name |-> EnvStation(env),
                     train_count  |-> Len(all_train_data[w]),
                     trains       |-> all_train_data[w],
                     task_id      |-> req[w].id]]
    /\ pc' = [pc EXCEPT ![w] = "returned"]
    /\ UNCHANGED <<file, env, pending, triggered, now, req, fetchLocals,
                   storeLocals, exc, harnessVars>>

\* fetch_subway_arrival_info, lines 25-56 and 64-71.
ArrivalFetch(w) ==
    /\ pc[w] = ARRIVAL
    /\ IF NewClient(env).raised \/ ~Truthy(EnvStation(env))
       THEN /\ exc' = [exc EXCEPT ![w] = "ValueError"]
            /\ pc' = [pc EXCEPT ![w] = "raised"]
            /\ UNCHANGED <<arrival_response, arrival_result,
                           subway_data_list, result>>
       ELSE \E resp \in ArrivalResponses :
              LET r == track_train_to_station(resp, EnvStation(env),
                                              env.LINE_NUM, PyNoneChars)
              IN  /\ arrival_response' = [arrival_response EXCEPT ![w] = resp]
                  /\ IF r.raised
                     THEN /\ exc' = [exc EXCEPT ![w] = r.exc]
                          /\ pc' = [pc EXCEPT ![w] = "raised"]
                          /\ UNCHANGED <<arrival_result, subway_data_list,
                                         result>>
                     ELSE /\ arrival_result' =
                                 [arrival_result EXCEPT ![w] = r.value]
                          /\ exc' = exc
                          /\ IF r.value.success
                             THEN /\ subway_data_list' =
                                        [subway_data_list EXCEPT
                                           ![w] = r.value.data]
                                  /\ pc' = [pc EXCEPT
                                              ![w] = "process_subway_data"]
                                  /\ UNCHANGED result
                             ELSE /\ result' = [result EXCEPT ![w] =
                                        [status    |-> "failed",
                                         timestamp |-> now,
                                         error     |-> Get(r.value, "message",
                                                           PyNoneChars),
                                         task_id   |-> req[w].id]]
                                  /\ pc' = [pc EXCEPT ![w] = "returned"]
                                  /\ UNCHANGED subway_data_list
    /\ UNCHANGED <<file, env, pending, triggered, now, req, all_train_data,
                   position_response, position_result, log_entry, logs,
                   harnessVars>>

\* fetch_subway_arrival_info, lines 58-63.
ArrivalReturn(w) ==
    /\ pc[w] = "stored"
    /\ req[w].task = ARRIVAL
    /\ result' = [result EXCEPT ![w] =
                    [status     |-> "success",
                     timestamp  |-> now,
                     data_count |-> arrival_result[w].count,
                     task_id    |-> req[w].id]]
    /\ pc' = [pc EXCEPT ![w] = "returned"]
    /\ UNCHANGED <<file, env, pending, triggered, now, req, fetchLocals,
                   storeLocals, exc, harnessVars>>

\* Mutant of SelfRetry: the retry is published without counting it.
SelfRetry_SameCount(r, countdown, max_retries) ==
    IF r.retries + 1 > max_retries
    THEN [state |-> "FAILURE", publish |-> {}]
    ELSE [state |-> "RETRY",
          publish |-> {[r EXCEPT !.countdown = countdown]}]

\* Mutant of SelfRetry: the retry is published whatever the count.
SelfRetry_NoCap(r, countdown, max_retries) ==
    [state |-> "RETRY",
     publish |-> {[r EXCEPT !.retries = r.retries + 1,
                            !.countdown = countdown]}]

\* self.retry(exc=e, countdown=60, max_retries=3) as Celery runs it for a
\* task a worker executes: the message is published again with retries + 1
\* and the countdown and the task ends in state RETRY, unless retries + 1
\* exceeds max_retries: then exc is raised and the task ends in FAILURE.
SelfRetry(r, countdown, max_retries) ==
    IF r.retries + 1 > max_retries
    THEN [state |-> "FAILURE", publish |-> {}]
    ELSE [state |-> "RETRY",
          publish |-> {[r EXCEPT !.retries = r.retries + 1,
                                 !.countdown = countdown]}]

\* except Exception as e: raise self.retry(...), lines 73-76 and 237-242.
OnException(w) ==
    /\ pc[w] = "raised"
    /\ req[w] # NoReq
    /\ LET s == SelfRetry(req[w], RETRY_COUNTDOWN, MAX_RETRIES)
       IN  /\ pc' = [pc EXCEPT ![w] = s.state]
           /\ pending' = pending \union s.publish
    /\ UNCHANGED <<file, env, triggered, now, req, fetchLocals, storeLocals,
                   result, exc, harnessVars>>

\* The worker is done with the message and forgets the task's locals.
Ack(w) ==
    /\ pc[w] \in {"returned", "RETRY", "FAILURE"}
    /\ pc' = [pc EXCEPT ![w] = "idle"]
    /\ req' = [req EXCEPT ![w] = NoReq]
    /\ arrival_response' = [arrival_response EXCEPT ![w] = NoResp]
    /\ arrival_result' = [arrival_result EXCEPT ![w] = Unset]
    /\ all_train_data' = [all_train_data EXCEPT ![w] = <<>>]
    /\ position_response' = [position_response EXCEPT ![w] = NoResp]
    /\ position_result' = [position_result EXCEPT ![w] = Unset]
    /\ subway_data_list' = [subway_data_list EXCEPT ![w] = <<>>]
    /\ log_entry' = [log_entry EXCEPT ![w] = NoEntry]
    /\ logs' = [logs EXCEPT ![w] = <<>>]
    /\ result' = [result EXCEPT ![w] = Unset]
    /\ exc' = [exc EXCEPT ![w] = ""]
    /\ UNCHANGED <<file, env, pending, triggered, now, harnessVars>>

-----------------------------------------------------------------------------
(* Spec: the tasks on Celery workers *)

\* Entries an earlier run left in the log, oldest first.
PriorLogs(n) == [i \in 1..n |-> [timestamp |-> i - n - 1, data |-> <<>>]]

RunnerWorkers == {"w1"}

RunnerFiles == {Missing, NonList, ListFile(PriorLogs(Capacity))}

WorkersIdle ==
    /\ pc = [w \in Workers |-> "idle"]
    /\ req = [w \in Workers |-> NoReq]
    /\ arrival_response = [w \in Workers |-> NoResp]
    /\ arrival_result = [w \in Workers |-> Unset]
    /\ all_train_data = [w \in Workers |-> <<>>]
    /\ position_response = [w \in Workers |-> NoResp]
    /\ position_result = [w \in Workers |-> Unset]
    /\ subway_data_list = [w \in Workers |-> <<>>]
    /\ log_entry = [w \in Workers |-> NoEntry]
    /\ logs = [w \in Workers |-> <<>>]
    /\ result = [w \in Workers |-> Unset]
    /\ exc = [w \in Workers |-> ""]

HarnessIdle ==
    /\ phase = "none"
    /\ input = Unset
    /\ output = Unset

Init ==
    /\ file \in RunnerFiles
    /\ env \in Envs
    /\ pending = {}
    /\ triggered = 0
    /\ now = 1
    /\ WorkersIdle
    /\ HarnessIdle

Next ==
    \/ Publish(TRACKING)
    \/ Publish(ARRIVAL)
    \/ \E w \in RunnerWorkers :
          \/ Receive(w)
          \/ TrackingFetchArrivals(w)
          \/ TrackingPositions(w)
          \/ TrackingReturn(w)
          \/ ArrivalFetch(w)
          \/ ArrivalReturn(w)
          \/ StoreBegin(w)
          \/ StoreRead(w)
          \/ StoreOpen(w)
          \/ StoreDump(w)
          \/ OnException(w)
          \/ Ack(w)

Spec == Init /\ [][Next]_vars

\* What a worker does with a message: it takes it, runs the task body to its
\* return or its exception, and is free again.
WorkerStep(w) ==
    \/ Receive(w)
    \/ TrackingFetchArrivals(w)
    \/ TrackingPositions(w)
    \/ TrackingReturn(w)
    \/ ArrivalFetch(w)
    \/ ArrivalReturn(w)
    \/ StoreBegin(w)
    \/ StoreRead(w)
    \/ StoreOpen(w)
    \/ StoreDump(w)
    \/ OnException(w)
    \/ Ack(w)

\* SpecLive: the tasks on a worker that keeps running: every request returns
\* (requests.get has timeout=10), every file operation returns, and the
\* broker delivers a held message, a retry included, to a free worker. It
\* starts without a log or with one that is no list, the station name unset
\* and the line code unset or 1002.
LiveInit ==
    /\ Init
    /\ file \in {Missing, NonList}
    /\ env.STATION_NAME = PyNone
    /\ env.LINE_NUM \in {PyNone, "1002"}

SpecLive ==
    LiveInit /\ [][Next]_vars /\ \A w \in RunnerWorkers : WF_vars(WorkerStep(w))

-----------------------------------------------------------------------------
(* SpecStore: process_subway_data called from concurrent worker processes;  *)
(* SpecStoreSeq: the same calls made one after another by one process.      *)
(* input[w] holds the file as it was when w made its call and the argument; *)
(* output holds the entries whose call has returned normally.               *)

StoreFiles ==
    {Missing, Empty, Corrupt, NonList} \union
    {ListFile(PriorLogs(n)) : n \in {0, 1, Capacity - 1, Capacity,
                                     Capacity + 1}}

StoreArgs == {<<>>, <<"snapshot">>}

StoreInit ==
    /\ file \in StoreFiles
    /\ env = [SUBWAY_API_KEY |-> "key", STATION_NAME |-> PyNone,
              LINE_NUM |-> PyNone]
    /\ pending = {}
    /\ triggered = 0
    /\ now = 1
    /\ WorkersIdle
    /\ phase = "store"
    /\ input = [w \in Workers |-> Unset]
    /\ output = {}

StoreCall(w) ==
    /\ pc[w] = "idle"
    /\ triggered < MaxCalls
    /\ triggered' = triggered + 1
    /\ \E data \in StoreArgs :
          /\ subway_data_list' = [subway_data_list EXCEPT ![w] = data]
          /\ input' = [input EXCEPT ![w] = [file |-> file, data |-> data]]
    /\ pc' = [pc EXCEPT ![w] = "process_subway_data"]
    /\ UNCHANGED <<file, env, pending, now, req, fetchLocals, log_entry, logs,
                   result, exc, phase, output>>

StoreReturn(w) ==
    /\ pc[w] \in {"stored", "raised"}
    /\ req[w] = NoReq
    /\ output' = IF pc[w] = "stored" THEN output \union {log_entry[w]}
                 ELSE output
    /\ pc' = [pc EXCEPT ![w] = "idle"]
    /\ input' = [input EXCEPT ![w] = Unset]
    /\ subway_data_list' = [subway_data_list EXCEPT ![w] = <<>>]
    /\ log_entry' = [log_entry EXCEPT ![w] = NoEntry]
    /\ logs' = [logs EXCEPT ![w] = <<>>]
    /\ exc' = [exc EXCEPT ![w] = ""]
    /\ UNCHANGED <<file, env, pending, triggered, now, req, fetchLocals,
                   result, phase>>

StoreStep(w) ==
    \/ StoreCall(w)
    \/ StoreBegin(w)
    \/ StoreRead(w)
    \/ StoreOpen(w)
    \/ StoreDump(w)
    \/ StoreReturn(w)

StoreNext == \E w \in Workers : StoreStep(w)

SpecStore == StoreInit /\ [][StoreNext]_vars

StoreSeqNext == \E w \in RunnerWorkers : StoreStep(w)

SpecStoreSeq == StoreInit /\ [][StoreSeqNext]_vars

-----------------------------------------------------------------------------
(* SpecTrack: one call of track_train_to_station on a stubbed response *)

TrainNos == <<"T1", "T2", "T3", "T4", "T5", "T6">>

RawLists ==
    UNION {[1..n -> {"1002", "1009"} \X {<<"3", "0">>, <<"1", "2", "0">>}
                    \X {ToSeongsu, ToSeoul}] : n \in 0..MaxLen}

RawTrains(l) ==
    [i \in 1..Len(l) |-> Train(TrainNos[i], l[i][1], l[i][2], l[i][3])]

TrackResponses ==
    {Arrivals(RawTrains(l)) : l \in RawLists} \union
    {RequestFailed,
     Json(JList(<<>>)),
     Json(JDict([status |-> STATUS_500, code |-> "ERROR-338",
                 message |-> "rate limited"]))}

TrackInputs ==
    [resp      : TrackResponses,
     line_num  : {PyNone, "", "1002"},
     direction : {PyNoneChars, <<>>, <<"X">>, <<" ", "-">>}]

TrackInit ==
    /\ file = Missing
    /\ env = [SUBWAY_API_KEY |-> "key", STATION_NAME |-> PyNone,
              LINE_NUM |-> PyNone]
    /\ pending = {}
    /\ triggered = 0
    /\ now = 1
    /\ WorkersIdle
    /\ phase = "in"
    /\ input \in TrackInputs
    /\ output = Unset

TrackCall ==
    /\ phase = "in"
    /\ phase' = "out"
    /\ output' = track_train_to_station(input.resp, DEFAULT_STATION,
                                        input.line_num, input.direction)
    /\ UNCHANGED <<runnerVars, input>>

SpecTrack == TrackInit /\ [][TrackCall]_vars

-----------------------------------------------------------------------------
(* SpecFetch: one call of a client operation on a stubbed response *)

\* A dict that has the key k with one of the values, or not at all.
Opt(k, values) == {<<>>} \union {k :> v : v \in values}

TopFields ==
    {s @@ c @@ m : s \in Opt("status", {STATUS_500, STATUS_200}),
                   c \in Opt("code", {"ERROR-338"}),
                   m \in Opt("message", {"rate limited"})}

ErrorFields ==
    Opt("errorMessage",
        {c @@ st @@ m : c \in Opt("code", {"INFO-000", "ERROR-300"}),
                        st \in Opt("status", {STATUS_200, STATUS_500}),
                        m \in Opt("message", {"bad request"})})

\* A raw record without the arrival time.
Untimed(no, line) == JDict([trainNo |-> no, subwayId |-> line])

RawListValues ==
    { JList(<<>>),
      JList(<<Train("T1", "1002", <<"3", "0">>, ToSeongsu)>>),
      JList(<<Train("T1", "1002", <<"1", "2", "0">>, ToSeoul),
              Train("T2", "1009", <<"3", "0">>, ToSeongsu)>>),
      JList(<<Untimed("T1", "1002")>>),
      JList(<<Train("T1", "1002", <<"a">>, ToSeoul)>>),
      JList(<<Train("T1", "1002", <<"3", "0">>, ToSeoul),
              Train("T2", "1002", <<"-", "5">>, ToSeoul)>>),
      JList(<<Train("T1", "1002", <<"3", "0">>, ToSeoul), JStr>>),
      JNull,
      JDict(<<>>),
      JStr }

ListFields ==
    {<<>>} \union
    {("realtimeArrivalList" :> l) @@ ("realtimePositionList" :> l) :
        l \in RawListValues}

FetchResponses ==
    {Json(JDict(t @@ e @@ l)) :
        t \in TopFields, e \in ErrorFields, l \in ListFields} \union
    {RequestFailed, Json(JNull), Json(JList(<<>>)), Json(JStr)}

FetchInputs ==
    [resp     : FetchResponses,
     op       : {"get_realtime_arrival", "get_realtime_position"},
     line_num : {PyNone}] \union
    [resp     : FetchResponses,
     op       : {"track_train_to_station"},
     line_num : {PyNone, "1002", "1009"}]

FetchInit ==
    /\ file = Missing
    /\ env = [SUBWAY_API_KEY |-> "key", STATION_NAME |-> PyNone,
              LINE_NUM |-> PyNone]
    /\ pending = {}
    /\ triggered = 0
    /\ now = 1
    /\ WorkersIdle
    /\ phase = "in"
    /\ input \in FetchInputs
    /\ output = Unset

FetchCall ==
    /\ phase = "in"
    /\ phase' = "out"
    /\ output' =
          CASE input.op = "get_realtime_arrival" ->
                   get_realtime_arrival(input.resp)
            [] input.op = "get_realtime_position" ->
                   get_realtime_position(input.resp)
            [] input.op = "track_train_to_station" ->
                   track_train_to_station(input.resp, DEFAULT_STATION,
                                          input.line_num, PyNoneChars)
    /\ UNCHANGED <<runnerVars, input>>

SpecFetch == FetchInit /\ [][FetchCall]_vars

-----------------------------------------------------------------------------
(* Properties of the history log *)

\* The sequence a file holds for an append that finds it absent or a list.
PriorSeq(f) == IF f.kind = "list" THEN f.logs ELSE <<>>

\* r is the last min(Len(l), 100) elements of l, in the order of l.
IsNewestOf(r, l) ==
    /\ Len(r) = (IF Len(l) < 100 THEN Len(l) ELSE 100)
    /\ \A i \in 1..Len(r) : r[i] = l[Len(l) - Len(r) + i]

\* C1: a completed append to a stored sequence S (an absent file is the
\* empty sequence) of an entry e carrying the data passed in leaves the
\* last 100 elements of S followed by e, oldest first.
C1_AppendKeepsNewest ==
    \A w \in Workers :
        (pc[w] = "stored" /\ input[w].file.kind \in {"list", "missing"})
        => /\ log_entry[w].data = input[w].data
           /\ file.kind = "list"
           /\ IsNewestOf(file.logs,
                         Append(PriorSeq(input[w].file), log_entry[w]))

\* An append to a full log has completed: the oldest entry is gone, the new
\* one is last.
C1_Witness ==
    \E w \in Workers :
        /\ pc[w] = "stored"
        /\ input[w].file.kind = "list"
        /\ Len(input[w].file.logs) = 100
        /\ file.kind = "list"
        /\ Len(file.logs) = 100
        /\ file.logs[1] = input[w].file.logs[2]
        /\ file.logs[100] = log_entry[w]

\* Some call of process_subway_data has returned normally.
AppendCompleted == output # {} \/ \E w \in Workers : pc[w] = "stored"

\* C2: once an append has completed, whatever the file held at first and
\* however the calls interleave, the log holds at most 100 entries.
C2_HistoryBounded == AppendCompleted => Len(file.logs) <= 100

\* An append to a log of 101 entries has completed and left 100.
C2_Witness ==
    \E w \in Workers :
        /\ pc[w] = "stored"
        /\ input[w].file.kind = "list"
        /\ Len(input[w].file.logs) = 101
        /\ file.kind = "list"
        /\ Len(file.logs) = 100

\* The entries whose append has completed.
CompletedEntries ==
    output \union {log_entry[w] : w \in {v \in Workers : pc[v] = "stored"}}

\* C3: when no call is in progress and the file is a well-formed log, the
\* log holds the entry of every call that completed (calls interleave
\* freely; far fewer than 100 entries are appended).
C3_NoLostUpdates ==
    ((\A w \in Workers : pc[w] \in {"idle", "stored"}) /\ file.kind = "list")
    => \A e \in CompletedEntries :
           \E i \in 1..Len(file.logs) : file.logs[i] = e

\* C4: while one process appends to an absent or well-formed log, and also
\* after its write has failed, the file is the log as it was before the
\* call or the complete log after it.
C4_AtomicWrite ==
    \A w \in Workers :
        (pc[w] # "idle" /\ input[w].file.kind \in {"list", "missing"})
        => \/ file = input[w].file
           \/ /\ file.kind = "list"
              /\ IsNewestOf(file.logs,
                            Append(PriorSeq(input[w].file), log_entry[w]))

\* C5: an append that finds the file absent, undecodable, or decodable but
\* not a list, and meets no I/O error, returns normally and leaves exactly
\* the new entry.
C5_CorruptPriorIsEmpty ==
    \A w \in Workers :
        ( /\ pc[w] \in {"stored", "raised"}
          /\ input[w].file.kind \in {"missing", "empty", "corrupt", "nonlist"}
          /\ exc[w] # "OSError" )
        => /\ pc[w] = "stored"
           /\ file = ListFile(<<log_entry[w]>>)

-----------------------------------------------------------------------------
(* Properties of the tasks *)

\* C6: an exception that escapes the task body is answered by a retry
\* request with countdown 60 while fewer than 3 retries were made (the
\* message is published again with one more retry), and by a terminal
\* FAILURE that publishes nothing once 3 retries were made; no message is
\* ever published with more than 3 retries.
C6_RetryPolicy ==
    /\ \A m \in pending :
          m.retries > 0 => (m.countdown = 60 /\ m.retries <= 3)
    /\ \A w \in Workers :
          /\ exc[w] # "" => pc[w] \in {"raised", "RETRY", "FAILURE"}
          /\ pc[w] = "RETRY" =>
                /\ exc[w] # ""
                /\ req[w].retries < 3
                /\ [req[w] EXCEPT !.retries = req[w].retries + 1,
                                  !.countdown = 60] \in pending
          /\ pc[w] = "FAILURE" =>
                /\ exc[w] # ""
                /\ req[w].retries = 3
                /\ \A m \in pending : m.id # req[w].id

\* A write of the log failed on the execution that followed the third
\* retry: the task is in FAILURE.
C6_Witness ==
    \E w \in Workers :
        pc[w] = "FAILURE" /\ exc[w] = "OSError" /\ req[w].retries = 3

TransportFailure(resp) == resp.kind = "RequestException"

UpstreamStatus500(resp) ==
    /\ resp.kind = "json"
    /\ resp.data.pytype = "dict"
    /\ "status" \in DOMAIN resp.data.d
    /\ resp.data.d.status = 500

UpstreamErrorMessage(resp) ==
    /\ resp.kind = "json"
    /\ resp.data.pytype = "dict"
    /\ ~UpstreamStatus500(resp)
    /\ "errorMessage" \in DOMAIN resp.data.d
    /\ Get(resp.data.d.errorMessage, "code", "") # "INFO-000"
    /\ Get(resp.data.d.errorMessage, "status", 0) # 200

ZeroRecords(w) ==
    /\ "success" \in DOMAIN arrival_result[w]
    /\ arrival_result[w].success
    /\ arrival_result[w].count = 0

BusinessOutcome(w) ==
    /\ req[w].task = TRACKING
    /\ arrival_response[w].kind # "none"
    /\ \/ TransportFailure(arrival_response[w])
       \/ UpstreamStatus500(arrival_response[w])
       \/ UpstreamErrorMessage(arrival_response[w])
       \/ ZeroRecords(w)

IsFailedResult(r) ==
    /\ DOMAIN r = {"status", "stage", "error", "timestamp", "task_id"}
    /\ r.status = "failed"
    /\ r.stage = "arrival_info"
    /\ r.error # <<>>

NoRetryOf(w) == \A m \in pending : m.id # req[w].id

\* C7: a tracking run whose arrivals call ended in a transport failure, in
\* either upstream error shape, or in zero records after filtering has
\* returned the failed result (status, stage arrival_info, error,
\* timestamp): no exception escaped and no retry was published.
C7_BusinessOutcomeFails ==
    \A w \in Workers :
        BusinessOutcome(w)
        => /\ pc[w] = "returned"
           /\ exc[w] = ""
           /\ IsFailedResult(result[w])
           /\ NoRetryOf(w)

\* The line filter left none of the records the upstream sent.
C7_Witness ==
    \E w \in Workers :
        /\ BusinessOutcome(w)
        /\ ZeroRecords(w)
        /\ arrival_response[w].kind = "json"
        /\ "realtimeArrivalList" \in DOMAIN arrival_response[w].data.d
        /\ arrival_response[w].data.d.realtimeArrivalList.items # <<>>
        /\ pc[w] = "returned"

ConfigMissing(w) ==
    \/ ~Truthy(env.SUBWAY_API_KEY)
    \/ req[w].task = ARRIVAL /\ ~Truthy(EnvStation(env))

\* C8: a run that fails on a missing configuration value (no API key, no
\* station name) ends in FAILURE at once, without a retry.
C8_ConfigErrorIsFatal ==
    \A w \in Workers :
        (ConfigMissing(w) /\ pc[w] \in {"RETRY", "FAILURE"})
        => (pc[w] = "FAILURE" /\ req[w].retries = 0)

IsDecimal(s) ==
    LET body == IF s # <<>> /\ s[1] \in {"-", "+"} THEN Tail(s) ELSE s
    IN  body # <<>> /\ \A i \in 1..Len(body) : body[i] \in Digits

\* The decoded payload has the shape the arrival parser expects.
ArrivalShapeOk(data) ==
    /\ data.pytype = "dict"
    /\ "realtimeArrivalList" \in DOMAIN data.d =>
          /\ data.d.realtimeArrivalList.pytype = "list"
          /\ \A i \in 1..Len(data.d.realtimeArrivalList.items) :
                LET item == data.d.realtimeArrivalList.items[i]
                IN  /\ item.pytype = "dict"
                    /\ "barvlDt" \in DOMAIN item.d => IsDecimal(item.d.barvlDt)

\* The payload is one the error checks pass and the parser rejects.
ParserRejects(resp) ==
    /\ resp.kind = "json"
    /\ resp.data.pytype # "NoneType"
    /\ ~UpstreamStatus500(resp)
    /\ ~UpstreamErrorMessage(resp)
    /\ ~ArrivalShapeOk(resp.data)

\* The payload is malformed: the parser rejects it, or it is no container.
Malformed(resp) ==
    resp.kind = "json" /\ (resp.data.pytype = "NoneType" \/ ParserRejects(resp))

Finished(w) == pc[w] \in {"returned", "RETRY", "FAILURE"}

-----------------------------------------------------------------------------
(* Properties of track_train_to_station *)

\* The arrival records the fetch gave the call, in the upstream's order.
FetchedRecords == get_realtime_arrival(input.resp).value.data

FetchSucceeded ==
    /\ ~get_realtime_arrival(input.resp).raised
    /\ get_realtime_arrival(input.resp).value.success

IsSubstring(sub, s) ==
    \E a \in 1..(Len(s) + 1) : \E b \in (a - 1)..Len(s) : SubSeq(s, a, b) = sub

\* A filter that is absent or empty selects every record.
Selected(t) ==
    /\ input.line_num \notin {PyNone, ""} => t.subway_id = input.line_num
    /\ input.direction \notin {PyNoneChars, <<>>} =>
          IsSubstring(input.direction, t.train_line_nm)

\* C10: the items returned are the fetched records that the line filter
\* and the direction filter select, each once, in non-decreasing order of
\* arrival_time, records of equal arrival_time in their fetched order; count
\* is their number.
C10_TrackFilterStableSort ==
    (phase = "out" /\ FetchSucceeded)
    => /\ ~output.raised
       /\ output.value.success
       /\ output.value.count = Len(output.value.data)
       /\ LET items == output.value.data
              kept == {i \in 1..Len(FetchedRecords) :
                          Selected(FetchedRecords[i])}
          IN  /\ Len(items) = Cardinality(kept)
              /\ \E f \in [1..Len(items) -> kept] :
                    /\ \A k \in 1..Len(items) : items[k] = FetchedRecords[f[k]]
                    /\ \A k \in 1..Len(items) : \A l \in 1..Len(items) :
                          k < l =>
                             /\ f[k] # f[l]
                             /\ items[k].arrival_time <= items[l].arrival_time
                             /\ items[k].arrival_time = items[l].arrival_time
                                   => f[k] < f[l]

\* Both filters were given, one of three records was dropped, and the two
\* that remain came back in the opposite of their fetched order.
C10_Witness ==
    /\ phase = "out"
    /\ FetchSucceeded
    /\ input.line_num = "1002"
    /\ input.direction = <<"X">>
    /\ Len(FetchedRecords) = 3
    /\ output.value.count = 2
    /\ output.value.data[1] = FetchedRecords[3]
    /\ output.value.data[2] = FetchedRecords[1]

-----------------------------------------------------------------------------
(* Properties of the client operations (SpecFetch) *)

\* The decoded payload of the call, when it is a JSON object.
PayloadIsObject == input.resp.kind = "json" /\ input.resp.data.pytype = "dict"

Payload == input.resp.data.d

Called(op) == phase = "out" /\ input.op = op

\* C11: a payload with top-level status 500 and an errorMessage object is
\* answered, by each operation, with the failure built from the top-level
\* code and message, whatever the errorMessage object holds.
C11_Status500Precedes ==
    ( /\ phase = "out"
      /\ PayloadIsObject
      /\ "status" \in DOMAIN Payload
      /\ Payload.status = 500
      /\ "errorMessage" \in DOMAIN Payload )
    => /\ ~output.raised
       /\ ~output.value.success
       /\ output.value.error = <<Get(Payload, "code", ""), ": ",
                                 Get(Payload, "message", "unknown error")>>

\* Status 500 came with an errorMessage that alone would mean success, and
\* with records; the answer is the top-level error.
C11_Witness ==
    /\ Called("get_realtime_position")
    /\ PayloadIsObject
    /\ DOMAIN Payload = {"status", "code", "message", "errorMessage",
                         "realtimeArrivalList", "realtimePositionList"}
    /\ Payload.status = 500
    /\ Payload.errorMessage = [code |-> "INFO-000", status |-> 200,
                               message |-> "bad request"]
    /\ Payload.realtimePositionList.pytype = "list"
    /\ Payload.realtimePositionList.items # <<>>
    /\ output.value.error = <<"ERROR-338", ": ", "rate limited">>

\* The payload has no top-level status 500 and carries an errorMessage.
ErrorMessageOnly ==
    /\ PayloadIsObject
    /\ ~("status" \in DOMAIN Payload /\ Payload.status = 500)
    /\ "errorMessage" \in DOMAIN Payload

\* C12: for a payload without top-level status 500 that carries an
\* errorMessage, the fetch answers with the errorMessage failure exactly when
\* its code is not "INFO-000" and its status is not 200; otherwise the payload
\* goes to the normalizer, so a well-formed record list comes back as a
\* success with all its records.
C12_InfoSentinelIsSuccess ==
    (phase = "out" /\ input.op # "track_train_to_station" /\ ErrorMessageOnly)
    => LET e == Payload.errorMessage
           fails == /\ Get(e, "code", "") # "INFO-000"
                    /\ Get(e, "status", 0) # 200
           msg == Get(e, "message", "unknown error")
       IN  /\ ~output.raised
           /\ fails <=> ( /\ ~output.value.success
                          /\ output.value.error = <<msg>>
                          /\ output.value.message = <<"API error: ", msg>> )
           /\ ~fails =>
                 \/ output.value.success
                 \/ output.value.message = <<"response parsing failed">>
           /\ ( /\ ~fails
                /\ input.op = "get_realtime_arrival"
                /\ ArrivalShapeOk(input.resp.data)
                /\ "realtimeArrivalList" \in DOMAIN Payload )
              => /\ output.value.success
                 /\ output.value.count =
                        Len(Payload.realtimeArrivalList.items)

\* Code INFO-000 came with status 500 and one record: a success of one
\* record.
C12_Witness ==
    /\ Called("get_realtime_arrival")
    /\ ErrorMessageOnly
    /\ Get(Payload.errorMessage, "code", "") = "INFO-000"
    /\ Get(Payload.errorMessage, "status", 0) = 500
    /\ output.value.success
    /\ output.value.count = 1

\* The payload passes both error checks.
PassesErrorChecks ==
    /\ PayloadIsObject
    /\ ~UpstreamStatus500(input.resp)
    /\ ~UpstreamErrorMessage(input.resp)

\* s is a decimal numeral without a sign.
IsNatural(s) == s # <<>> /\ \A i \in 1..Len(s) : s[i] \in Digits

\* C13: when every raw record is an object, the arrival fetch succeeds and
\* every normalized record has a non-negative arrival time, which is 0 where
\* the raw field is missing, not numeric, or negative.
C13_MalformedTimeIsZero ==
    ( /\ Called("get_realtime_arrival")
      /\ PassesErrorChecks
      /\ "realtimeArrivalList" \in DOMAIN Payload
      /\ Payload.realtimeArrivalList.pytype = "list"
      /\ \A i \in 1..Len(Payload.realtimeArrivalList.items) :
            Payload.realtimeArrivalList.items[i].pytype = "dict" )
    => /\ ~output.raised
       /\ output.value.success
       /\ output.value.count = Len(Payload.realtimeArrivalList.items)
       /\ \A i \in 1..Len(Payload.realtimeArrivalList.items) :
             LET raw == Payload.realtimeArrivalList.items[i].d
                 t == output.value.data[i].arrival_time
             IN  /\ t >= 0
                 /\ ("barvlDt" \notin DOMAIN raw \/ ~IsNatural(raw.barvlDt))
                       => t = 0

\* The key of the record list an operation normalizes.
ListKey ==
    IF input.op = "get_realtime_position" THEN "realtimePositionList"
    ELSE "realtimeArrivalList"

\* The record list of the payload, or the empty list if the key is absent.
RawList == Get(Payload, ListKey, JList(<<>>))

\* Normalizing a raw record raises: it is no object, or (arrivals) its
\* arrival time is no numeral.
RecordRaises(item) ==
    \/ item.pytype # "dict"
    \/ /\ input.op = "get_realtime_arrival"
       /\ "barvlDt" \in DOMAIN item.d
       /\ ~IsDecimal(item.d.barvlDt)

\* Normalizing the payload raises: the record list is null, a string, an
\* object with keys, or a list with a record whose normalization raises.
NormalizationRaises ==
    \/ RawList.pytype = "NoneType"
    \/ RawList.pytype = "str"
    \/ RawList.pytype = "dict" /\ DOMAIN RawList.d # {}
    \/ /\ RawList.pytype = "list"
       /\ \E i \in 1..Len(RawList.items) : RecordRaises(RawList.items[i])

IsParsingFailure(r) ==
    /\ DOMAIN r = {"success", "error", "message"}
    /\ ~r.success
    /\ r.error # <<>>
    /\ r.message = <<"response parsing failed">>

\* C14: a fetch whose payload passes the error checks and whose
\* normalization raises, be it on the list or on a single record, answers
\* with the parsing failure and no items; a success over a list of raw
\* records carries every one of them.
C14_AllOrNothing ==
    ( /\ phase = "out"
      /\ input.op # "track_train_to_station"
      /\ PassesErrorChecks )
    => /\ ~output.raised
       /\ NormalizationRaises => IsParsingFailure(output.value)
       /\ (output.value.success /\ RawList.pytype = "list")
             => Len(output.value.data) = Len(RawList.items)

\* The second of two records is no object: the good first record is not
\* returned either.
C14_Witness ==
    /\ Called("get_realtime_arrival")
    /\ PassesErrorChecks
    /\ RawList.pytype = "list"
    /\ Len(RawList.items) = 2
    /\ ~RecordRaises(RawList.items[1])
    /\ RecordRaises(RawList.items[2])
    /\ IsParsingFailure(output.value)

\* C15: a result returned by the arrival fetch, the position fetch or
\* track_train_to_station has, on success, a count equal to the number of
\* its items and no error; on failure, an error and a message and no items.
\* A line filter that selects none of the fetched records gives a success of
\* count 0.
C15_QueryResultWellFormed ==
    (phase = "out" /\ ~output.raised)
    => LET r == output.value
       IN  /\ r.success =>
                 /\ {"count", "data"} \subseteq DOMAIN r
                 /\ r.count = Len(r.data)
                 /\ DOMAIN r \cap {"error", "message"} = {}
           /\ ~r.success =>
                 /\ {"error", "message"} \subseteq DOMAIN r
                 /\ r.error # <<>>
                 /\ r.message # <<>>
                 /\ DOMAIN r \cap {"count", "data"} = {}
           /\ ( /\ input.op = "track_train_to_station"
                /\ get_realtime_arrival(input.resp).value.success
                /\ \A i \in 1..Len(get_realtime_arrival(input.resp).value.data) :
                      get_realtime_arrival(input.resp).value.data[i].subway_id
                          # input.line_num
                /\ input.line_num # PyNone )
              => (r.success /\ r.count = 0 /\ r.data = <<>>)

\* A record of line 1002 was fetched and the filter asked for line 1009.
C15_Witness ==
    /\ Called("track_train_to_station")
    /\ input.line_num = "1009"
    /\ ~output.raised
    /\ get_realtime_arrival(input.resp).value.success
    /\ get_realtime_arrival(input.resp).value.count = 1
    /\ output.value.success
    /\ output.value.count = 0

-----------------------------------------------------------------------------
(* Properties of track_train_to_station (SpecTrack), continued *)

FetchFailed ==
    /\ ~get_realtime_arrival(input.resp).raised
    /\ ~get_realtime_arrival(input.resp).value.success

\* The message of the failure each failing response of SpecTrack leads to.
FailureMessage(resp) ==
    CASE resp.kind = "RequestException" -> <<"API request failed">>
      [] UpstreamStatus500(resp) ->
             <<"API error (", resp.data.d.code, "): ", resp.data.d.message>>
      [] OTHER -> <<"response parsing failed">>

\* C16: when the arrivals fetch fails (transport, upstream error, parsing),
\* track_train_to_station returns the fetch's failed result as it is, with
\* its message and without items, whatever filters were given.
C16_ErrorsPassThrough ==
    (phase = "out" /\ FetchFailed)
    => /\ output = get_realtime_arrival(input.resp)
       /\ DOMAIN output.value = {"success", "error", "message"}
       /\ ~output.value.success
       /\ output.value.message = FailureMessage(input.resp)

\* A payload that is a list, not an object, with both filters given: the
\* parsing failure comes back.
C16_Witness ==
    /\ phase = "out"
    /\ input.resp = Json(JList(<<>>))
    /\ input.line_num = "1002"
    /\ input.direction = <<"X">>
    /\ output.value.message = <<"response parsing failed">>

-----------------------------------------------------------------------------
(* Properties of the tracking flow (Spec) *)

Tracking(w) == req[w].task = TRACKING

\* The arrivals call of w returned a success with at least one record.
ArrivalsTracked(w) ==
    /\ "success" \in DOMAIN arrival_result[w]
    /\ arrival_result[w].success
    /\ arrival_result[w].count >= 1

PositionsFetched(w) == position_response[w].kind # "none"

\* C17: a worker has issued a positions request only in a tracking run whose
\* arrivals call had returned a success with at least one record; a run
\* whose arrivals call failed, raised or left no record has issued none and
\* printed no matched pair.
C17_PositionsAfterArrivals ==
    \A w \in Workers :
        /\ PositionsFetched(w) =>
              /\ Tracking(w)
              /\ arrival_response[w].kind # "none"
              /\ ArrivalsTracked(w)
              /\ all_train_data[w] # <<>>
        /\ (arrival_response[w].kind # "none" /\ ~ArrivalsTracked(w)) =>
              /\ ~PositionsFetched(w)
              /\ position_result[w] = Unset
              /\ Reconciled(all_train_data[w], position_result[w]) = <<>>

\* The positions request was made after arrivals with records, and a pair
\* was matched.
C17_Witness ==
    \E w \in Workers :
        /\ PositionsFetched(w)
        /\ ArrivalsTracked(w)
        /\ pc[w] = "process_subway_data"
        /\ Reconciled(all_train_data[w], position_result[w]) # <<>>

PairOf(pos) == [train_no        |-> pos.train_no,
                current_station |-> pos.current_station,
                next_station    |-> pos.next_station]

\* The positions call of w returned a success with at least one record.
PositionsFound(w) ==
    /\ Tracking(w)
    /\ "success" \in DOMAIN position_result[w]
    /\ position_result[w].success
    /\ position_result[w].count > 0

\* The pairs of w are those of exactly the position records whose train is
\* in ids, one pair for each.
PairsAreFor(w, ids) ==
    LET pos == position_result[w].data
        pairs == Reconciled(all_train_data[w], position_result[w])
        hit == {i \in 1..Len(pos) : pos[i].train_no \in ids}
    IN  /\ Len(pairs) = Cardinality(hit)
        /\ \A i \in hit : \E k \in 1..Len(pairs) : pairs[k] = PairOf(pos[i])
        /\ \A k \in 1..Len(pairs) : \E i \in hit : pairs[k] = PairOf(pos[i])

TrainNosOf(records, n) ==
    {records[k].train_no : k \in 1..(IF Len(records) < n THEN Len(records)
                                     ELSE n)}

\* C18 as stated: the pairs are those of the position records whose train is
\* any of the tracked arrivals the query returned.
C18_PairsForTracked ==
    \A w \in Workers :
        PositionsFound(w)
        => PairsAreFor(w, TrainNosOf(arrival_result[w].data,
                                     Len(arrival_result[w].data)))

\* C18 amended: the pairs are those of the position records whose train is
\* one of the first five tracked arrivals, the ones the run summarizes.
C18_PairsForSummarized ==
    \A w \in Workers :
        PositionsFound(w)
        => PairsAreFor(w, TrainNosOf(arrival_result[w].data, 5))

\* Six arrivals were tracked; the positions held the first of them, the
\* sixth and an untracked train; the only pair is that of the first.
C18_Witness ==
    \E w \in Workers :
        /\ PositionsFound(w)
        /\ Len(arrival_result[w].data) = 6
        /\ \E i \in 1..Len(position_result[w].data) :
              position_result[w].data[i].train_no =
                  arrival_result[w].data[6].train_no
        /\ Len(Reconciled(all_train_data[w], position_result[w])) = 1
        /\ Reconciled(all_train_data[w], position_result[w])[1].train_no =
              arrival_result[w].data[1].train_no

\* Where a tracking run is once the positions step is behind it.
AfterPositions ==
    {"process_subway_data", "store_read", "store_open", "store_dump",
     "stored", "returned", "raised", "RETRY", "FAILURE"}

\* An exception of w, if any, was raised by the append to the history log.
OnlyStoreRaised(w) ==
    exc[w] # "" => (exc[w] \in {"OSError", "AttributeError"}
                    /\ log_entry[w] # NoEntry)

\* The snapshot a tracking run hands to process_subway_data.
Snapshot(w) == [station_name |-> EnvStation(env),
                line_num     |-> env.LINE_NUM,
                trains       |-> all_train_data[w]]

\* The entry of w, holding its snapshot, is the newest of the log.
Appended(w) ==
    /\ file.kind = "list"
    /\ file.logs # <<>>
    /\ file.logs[Len(file.logs)] = log_entry[w]
    /\ log_entry[w].data = <<Snapshot(w)>>

ReturnedSuccess(w) ==
    /\ pc[w] = "returned"
    /\ result[w].status = "success"
    /\ exc[w] = ""

UnknownLine == env.LINE_NUM \notin KnownLines

\* C19: in a tracking run whose line code is unset or not one of the 14
\* known codes and whose arrivals call gave at least one record, no
\* positions request is made, the run goes on to the append, no exception
\* arises but from the append itself, and a run that has returned has
\* appended its snapshot and returned the success result.
C19_UnknownLineSkipsPositions ==
    \A w \in Workers :
        (Tracking(w) /\ UnknownLine /\ ArrivalsTracked(w))
        => /\ ~PositionsFetched(w)
           /\ position_result[w] = Unset
           /\ pc[w] \in AfterPositions \union {"positions"}
           /\ OnlyStoreRaised(w)
           /\ pc[w] = "returned" => (ReturnedSuccess(w) /\ Appended(w))

\* The line code 9999 is set, a record of that line arrived, and the run
\* returned its success.
C19_Witness ==
    \E w \in Workers :
        /\ Tracking(w)
        /\ env.LINE_NUM = "9999"
        /\ ArrivalsTracked(w)
        /\ ~PositionsFetched(w)
        /\ ReturnedSuccess(w)
        /\ Appended(w)

\* The positions response is one the client classifies (it raises only on
\* a payload that decodes to null).
Classified(resp) ==
    resp.kind = "RequestException"
    \/ (resp.kind = "json" /\ resp.data.pytype # "NoneType")

\* C20: in a tracking run, whatever the classified outcome of the positions
\* request (transport failure, upstream error, parsing failure, no record,
\* records), the run holds the client's result and goes on to the append of
\* its snapshot; no exception arises but from the append itself; a run that
\* has returned has returned the success result; and a success result is
\* never held before the snapshot is in the log.
C20_PositionsBestEffort ==
    \A w \in Workers :
        /\ (Tracking(w) /\ PositionsFetched(w)
              /\ Classified(position_response[w]))
           => /\ "success" \in DOMAIN position_result[w]
              /\ pc[w] \in AfterPositions
              /\ subway_data_list[w] = <<Snapshot(w)>>
              /\ OnlyStoreRaised(w)
              /\ pc[w] = "returned" => ReturnedSuccess(w)
        /\ (Tracking(w) /\ "status" \in DOMAIN result[w]
              /\ result[w].status = "success")
           => Appended(w)

\* The positions request failed in transport and the run returned success
\* with its snapshot appended.
C20_Witness ==
    \E w \in Workers :
        /\ Tracking(w)
        /\ position_response[w] = RequestFailed
        /\ ~position_result[w].success
        /\ ReturnedSuccess(w)
        /\ Appended(w)

-----------------------------------------------------------------------------
(* Frame and progress of a run (Spec, SpecLive) *)

\* The sequence a read of the file gives: the stored list, or nothing for a
\* file that is absent, empty or undecodable.
StoredSeq(f) == IF f.kind = "list" THEN f.logs ELSE <<>>

\* How many times e occurs in l.
Occurrences(l, e) == Cardinality({i \in 1..Len(l) : l[i] = e})

\* The entries the runs of the model appended (an entry found at the start
\* has a timestamp below 1).
AppendedEntries == {i \in 1..Len(file.logs) : file.logs[i].timestamp >= 1}

\* A run that returned the failed result never entered process_subway_data.
FailedRunWroteNothing ==
    \A w \in Workers :
        (pc[w] = "returned" /\ result[w].status = "failed")
        => (log_entry[w] = NoEntry /\ logs[w] = <<>>)

\* A run that returned success left the list it built, which ends with its
\* one entry.
SuccessRunAppendedOnce ==
    \A w \in Workers :
        (pc[w] = "returned" /\ result[w].status = "success")
        => /\ file = ListFile(logs[w])
           /\ logs[w] # <<>>
           /\ logs[w][Len(logs[w])] = log_entry[w]
           /\ Occurrences(logs[w], log_entry[w]) = 1

\* A step changes the file only if it is the open or the dump of a run
\* inside process_subway_data.
OnlyTheStoreWrites ==
    file' # file =>
        \E w \in Workers : /\ pc[w] \in {"store_open", "store_dump"}
                           /\ pc'[w] # pc[w]
                           /\ log_entry[w] # NoEntry

\* The list a run is about to write is the last 100 of what the file held
\* followed by the run's entry.
BuildsOneMore ==
    \A w \in Workers :
        (pc[w] \in {"process_subway_data", "store_read"}
           /\ pc'[w] = "store_open")
        => /\ file' = file
           /\ IsNewestOf(logs'[w], Append(StoredSeq(file), log_entry'[w]))

\* A dump that completes leaves exactly the list the run built.
DumpsWhatItBuilt ==
    \A w \in Workers :
        (pc[w] = "store_dump" /\ pc'[w] = "stored")
        => file' = ListFile(logs[w])

\* C21: a run changes the history only inside its one call of
\* process_subway_data: a run that returned the failed result made no such
\* call, so the file is as it found it; a run that returned success wrote
\* the last 100 of what the file held followed by exactly one entry; and the
\* entries appended never outnumber the cycles triggered, retries included.
C21_OneAppendPerInvocation ==
    /\ [](FailedRunWroteNothing /\ SuccessRunAppendedOnce
            /\ Cardinality(AppendedEntries) <= triggered)
    /\ [][OnlyTheStoreWrites /\ BuildsOneMore /\ DumpsWhatItBuilt]_vars

\* A tracking run found a full log and returned success: the oldest entry
\* is gone, the others are kept, the run's entry is last.
C21_Witness ==
    \E w \in Workers :
        /\ Tracking(w)
        /\ pc[w] = "returned"
        /\ result[w].status = "success"
        /\ Len(file.logs) = 100
        /\ file.logs[1] = PriorLogs(100)[2]
        /\ file.logs[99] = PriorLogs(100)[100]
        /\ file.logs[100] = log_entry[w]

\* The cycle of message id has ended: in a returned result or in FAILURE.
CycleEnded(id) ==
    \E w \in Workers : req[w].id = id /\ pc[w] \in {"returned", "FAILURE"}

\* A run ends in a success or failed result or, with its retries spent, in
\* FAILURE; no message carries more than 3 retries.
EndsAreResults ==
    /\ \A m \in pending : m.retries <= 3
    /\ \A w \in Workers :
          /\ req[w].retries <= 3
          /\ pc[w] = "FAILURE" => req[w].retries = 3
          /\ pc[w] = "returned" => result[w].status \in {"success", "failed"}

\* A task body is entered only by a free worker taking a message the
\* broker holds.
StartsFromBroker ==
    \A w \in Workers :
        (pc'[w] \in {TRACKING, ARRIVAL} /\ pc'[w] # pc[w])
        => /\ pc[w] = "idle"
           /\ req'[w] \in pending
           /\ pending' = pending \ {req'[w]}

\* An exception is answered by handing the message back to the broker with
\* one more retry, or by FAILURE; the task body is left either way.
RetryIsRequested ==
    \A w \in Workers :
        (pc[w] = "raised" /\ pc'[w] # pc[w])
        => \/ /\ pc'[w] = "RETRY"
              /\ pending' = pending \union
                    {[req[w] EXCEPT !.retries = req[w].retries + 1,
                                    !.countdown = 60]}
           \/ /\ pc'[w] = "FAILURE"
              /\ pending' = pending

\* C22: on a worker that keeps running, with requests that return and a
\* broker that delivers every message it holds, each published cycle ends:
\* in a success result, a failed result, or FAILURE after 3 retries. A retry
\* is a message given to the broker, the task body is entered only from a
\* message, and a cycle runs at most 1 + 3 times.
C22_CycleTerminates ==
    /\ \A id \in 1..MaxTriggers :
          (\E m \in pending : m.id = id) ~> CycleEnded(id)
    /\ []EndsAreResults
    /\ [][StartsFromBroker /\ RetryIsRequested]_vars

\* A cycle returned success on its fourth execution, after three retries.
C22_Witness ==
    \E w \in Workers :
        /\ pc[w] = "returned"
        /\ result[w].status = "success"
        /\ req[w].retries = 3

-----------------------------------------------------------------------------
(* The summaries of a tracking run (Spec) *)

\* The eight fields of a tracked arrival that its summary carries.
SummaryOf(t) ==
    [train_no        |-> t.train_no,
     direction       |-> t.direction,
     arrival_time    |-> t.arrival_time,
     arrival_msg     |-> t.arrival_msg,
     current_station |-> t.current_station,
     status          |-> t.status,
     is_express      |-> t.is_express,
     is_last_train   |-> t.is_last_train]

IsSortedByArrival(records) ==
    \A i \in 1..Len(records) : \A j \in 1..Len(records) :
        i < j => records[i].arrival_time <= records[j].arrival_time

\* C23: in a success result of the tracking run over n tracked arrivals,
\* which are sorted by arrival time, trains is the summaries of the first
\* min(5, n) of them in their order and train_count is its length, at most
\* 5; the entry in the log holds the same summaries, and the matched pairs
\* are those of the position records of the trains summarized.
C23_FirstFiveSummaries ==
    \A w \in Workers :
        (Tracking(w) /\ ReturnedSuccess(w))
        => LET tracked == arrival_result[w].data
               n == Len(tracked)
               k == IF n < 5 THEN n ELSE 5
               trains == result[w].trains
           IN  /\ IsSortedByArrival(tracked)
               /\ Len(trains) = k
               /\ \A i \in 1..k : trains[i] = SummaryOf(tracked[i])
               /\ result[w].train_count = Len(trains)
               /\ result[w].train_count <= 5
               /\ log_entry[w].data = <<[station_name |-> EnvStation(env),
                                         line_num     |-> env.LINE_NUM,
                                         trains       |-> trains]>>
               /\ file.logs[Len(file.logs)] = log_entry[w]
               /\ PositionsFound(w) =>
                     PairsAreFor(w, {trains[i].train_no : i \in 1..Len(trains)})

\* Six arrivals were tracked and the run returned five summaries; the
\* positions held the sixth train, and it was not matched.
C23_Witness ==
    \E w \in Workers :
        /\ Tracking(w)
        /\ ReturnedSuccess(w)
        /\ arrival_result[w].count = 6
        /\ result[w].train_count = 5
        /\ result[w].trains[5].train_no = arrival_result[w].data[5].train_no
        /\ PositionsFound(w)
        /\ \E i \in 1..Len(position_result[w].data) :
              position_result[w].data[i].train_no =
                  arrival_result[w].data[6].train_no
        /\ Len(Reconciled(all_train_data[w], position_result[w])) = 1

====
